---- MODULE Spec2Model ----
(***************************************************************************)
(* Sparse matrix-vector multiplication of "Spark matrix mult.ipynb".       *)
(*                                                                         *)
(* The notebook reads a COO text file (one "row col value" line per entry),*)
(* parses every line with map(float, l.strip().split(' ')), and computes   *)
(*   M_rdd.map(lambda x: (x[0], v_in[int(x[1])] * x[2]))                   *)
(*        .reduceByKey(lambda v1, v2: v1 + v2).sortByKey().collect()       *)
(* followed by the scatter of the collected (row, sum) pairs into          *)
(* np.zeros(n).                                                            *)
(*                                                                         *)
(* Numbers are integers standing for the floats of the notebook, so int()  *)
(* of an index is the index itself.  Python indices are 0-based; the       *)
(* sequences v_in and v_out_spark of the model are 1-based, so Python's    *)
(* a[i] is a[i + 1] here.                                                  *)
(***************************************************************************)
EXTENDS Integers, Sequences, FiniteSets, Bags, TLC

\* Largest number of lines of sparse_matrix.txt when the file is arbitrary text.
MaxLines == 2
\* Largest number of entries of a file that holds only entries of the matrix.
MaxEntries == 3
\* The dimensions n tried (the notebook takes n = 10000).
Dims == {1, 2}
\* The values a matrix entry or a vector component takes.
Vals == {1, 2}

VARIABLES
    n,                \* n: the dimension (rows of M, length of v_in and of the result)
    v_in,             \* v_in: the dense input vector
    lines,            \* lines: the records of sparse_matrix.txt, each a sequence of fields
    mapped,           \* indices of the records the parse and map lambdas have processed
    shuffle,          \* bag of <<key, value>> pairs inside reduceByKey
    v_out_spark_raw,  \* the collected, key-sorted (row, sum) pairs
    v_out_spark,      \* the reassembled result vector
    defined,          \* which of the two result names the notebook has bound
    pc,               \* "cell14" | "cell16" | "done" | "failed"
    err               \* the exception an aborted cell raised, or "none"

vars == <<n, v_in, lines, mapped, shuffle, v_out_spark_raw, v_out_spark,
          defined, pc, err>>

----------------------------------------------------------------------------
(* Fields of a line of text                                                *)

\* A field that float() accepts, holding the number it denotes.
Num(k) == [num |-> TRUE, val |-> k]
\* A field that float() rejects (text that is not a number, or empty).
NotANumber == [num |-> FALSE, val |-> 0]

\* Row and column indices tried for dimension k: every index numpy accepts
\* (-k .. k-1) and one beyond each end.
Indices(k) == (0 - k - 1) .. k

\* Entries of a k x k matrix: three numeric fields, row and column in 0..k-1.
MatrixLines(k) ==
    {<<Num(r), Num(c), Num(v)>> : r \in 0..(k - 1), c \in 0..(k - 1), v \in Vals}

\* Lines of three numeric fields whose row or column is not in 0..k-1 (their
\* value is 1).
StrayLines(k) ==
    {<<Num(r), Num(c), Num(1)>> : r \in Indices(k), c \in Indices(k)}
        \ MatrixLines(k)

\* Lines with a missing field, an extra field, or a field that is not a number.
OddLines ==
    {<<Num(0), Num(0)>>,
     <<Num(0), Num(0), Num(1), Num(2)>>,
     <<Num(0), Num(0), NotANumber>>,
     <<Num(0), Num(0), Num(1), NotANumber>>}

FileLines(k) == MatrixLines(k) \cup StrayLines(k) \cup OddLines

SeqsUpTo(S, k) == UNION {[1..m -> S] : m \in 0..k}

----------------------------------------------------------------------------
(* The lambdas                                                             *)

Raise(e) == [ok |-> FALSE, exc |-> e, key |-> 0, val |-> 0]

\* float(field)
Float(f) == IF f.num THEN [ok |-> TRUE, val |-> f.val] ELSE [ok |-> FALSE, val |-> 0]

\* map(float, l.strip().split(' ')): every field is converted (Python 2's map
\* is eager); the list keeps as many numbers as the line has fields.
ParseLine(l) ==
    IF \E p \in 1..Len(l) : ~Float(l[p]).ok
    THEN [ok |-> FALSE, fields |-> <<>>]
    ELSE [ok |-> TRUE, fields |-> [p \in 1..Len(l) |-> Float(l[p]).val]]

\* A lookup that yields 0 for an index it does not hold instead of raising.
LookupUnchecked(x, j) ==
    IF j >= 0 /\ j < Len(x) THEN [ok |-> TRUE, val |-> x[j + 1]]
    ELSE [ok |-> TRUE, val |-> 0]

\* x[j] for a numpy vector x: j in 0..len-1 reads x[j], j in -len..-1 reads
\* x[len + j], any other j raises IndexError.
Lookup(x, j) ==
    IF j >= 0 /\ j < Len(x) THEN [ok |-> TRUE, val |-> x[j + 1]]
    ELSE IF j < 0 /\ j >= 0 - Len(x) THEN [ok |-> TRUE, val |-> x[Len(x) + j + 1]]
    ELSE [ok |-> FALSE, val |-> 0]

\* lambda x: (x[0], v_in[int(x[1])] * x[2]) applied to a parsed record; x[0],
\* x[1], x[2] raise IndexError on a list that is too short, fields past the
\* third are never read.
MapFn(f, x) ==
    IF Len(f) < 2 THEN Raise("IndexError")
    ELSE IF ~Lookup(x, f[2]).ok THEN Raise("IndexError")
    ELSE IF Len(f) < 3 THEN Raise("IndexError")
    ELSE [ok |-> TRUE, exc |-> "none", key |-> f[1], val |-> Lookup(x, f[2]).val * f[3]]

\* The two chained lambdas on one record of the file.
MapLine(l, x) ==
    IF ~ParseLine(l).ok THEN Raise("ValueError")
    ELSE MapFn(ParseLine(l).fields, x)

\* A reduce function that is neither associative nor commutative.
ReduceMinus(v1, v2) == v1 - v2

\* A reduce function that keeps the later value and drops the earlier one.
ReduceSecond(v1, v2) == v2

\* lambda v1, v2: v1 + v2
ReduceFn(v1, v2) == v1 + v2

----------------------------------------------------------------------------
(* sortByKey().collect()                                                   *)

Keys(b) == {p[1] : p \in BagToSet(b)}

RECURSIVE SortedSeq(_)
\* The elements of a finite set of integers in ascending order.
SortedSeq(S) ==
    IF S = {} THEN <<>>
    ELSE LET lo == CHOOSE a \in S : \A b \in S : a <= b
         IN  <<lo>> \o SortedSeq(S \ {lo})

\* The pairs of the bag collected without the sort: here in descending key order.
CollectUnsorted(b) ==
    LET ks == SortedSeq(Keys(b))
    IN  [p \in 1..Len(ks) |-> CHOOSE pr \in BagToSet(b) : pr[1] = ks[Len(ks) + 1 - p]]

\* The pairs of a bag holding one pair per key, as a list in ascending key order.
SortByKey(b) ==
    LET ks == SortedSeq(Keys(b))
    IN  [p \in 1..Len(ks) |-> CHOOSE pr \in BagToSet(b) : pr[1] = ks[p]]

----------------------------------------------------------------------------
(* Reassembly: v_out_spark = np.zeros(n);                                  *)
(*             v_out_spark[map(int, raw.T[0])] = raw.T[1]                  *)

\* An array whose cells are not set to zero (np.empty, np.ones).
NotZeroed(k) == [p \in 1..k |-> 1]

\* np.zeros(k)
Zeros(k) == [p \in 1..k |-> 0]

\* The 1-based position that index idx of a length-k array denotes.
Position(k, idx) == IF idx >= 0 THEN idx + 1 ELSE k + idx + 1

\* Whether numpy accepts idx as an index of a length-k array.
IndexOk(k, idx) == idx >= 0 - k /\ idx < k

\* Reassembly without the zero fill: the collected sums as they come.
ReassembleNoFill(k, raw) ==
    {[ok |-> TRUE, vec |-> [p \in 1..Len(raw) |-> raw[p][2]]]}

\* Every outcome of the two statements.  An empty list collects to an array
\* of shape (0,), whose .T[0] raises IndexError; so does one index outside
\* -k..k-1, before anything is written.  Two indices that denote the same
\* position both write it, and numpy does not promise which value remains.
Reassemble(k, raw) ==
    LET base == Zeros(k)
    IN  IF raw = <<>> \/ \E p \in 1..Len(raw) : ~IndexOk(k, raw[p][1])
        THEN {[ok |-> FALSE, vec |-> base]}
        ELSE {[ok |-> TRUE, vec |-> v] :
                v \in {w \in [1..k -> {base[q] : q \in 1..k}
                                        \cup {raw[p][2] : p \in 1..Len(raw)}] :
                         \A q \in 1..k :
                            LET hits == {p \in 1..Len(raw) : Position(k, raw[p][1]) = q}
                            IN  IF hits = {} THEN w[q] = base[q]
                                ELSE \E p \in hits : w[q] = raw[p][2]}}

----------------------------------------------------------------------------
(* The notebook as a state machine                                         *)

Start ==
    /\ mapped = {}
    /\ shuffle = EmptyBag
    /\ v_out_spark_raw = <<>>
    /\ v_out_spark = <<>>
    /\ defined = {}
    /\ pc = "cell14"
    /\ err = "none"

\* Any file of up to MaxLines lines, entries in and out of range and lines
\* that are no entries; v_in is the ramp 1, 2, .., n.
Init ==
    /\ n \in Dims
    /\ v_in = [j \in 1..n |-> j]
    /\ lines \in SeqsUpTo(FileLines(n), MaxLines)
    /\ Start

\* Any list of up to MaxEntries entries of an n x n matrix, and any v_in.
InitEntries ==
    /\ n \in Dims
    /\ v_in \in [1..n -> Vals]
    /\ lines \in SeqsUpTo(MatrixLines(n), MaxEntries)
    /\ Start

\* One record goes through the parse lambda and the map lambda; an exception
\* in either aborts the job and cell 14 with it.
MapRecord(i) ==
    /\ pc = "cell14"
    /\ i \in (1..Len(lines)) \ mapped
    /\ LET r == MapLine(lines[i], v_in)
       IN  IF r.ok
           THEN /\ mapped' = mapped \cup {i}
                /\ shuffle' = shuffle (+) SetToBag({<<r.key, r.val>>})
                /\ UNCHANGED <<pc, err>>
           ELSE /\ pc' = "failed"
                /\ err' = r.exc
                /\ UNCHANGED <<mapped, shuffle>>
    /\ UNCHANGED <<n, v_in, lines, v_out_spark_raw, v_out_spark, defined>>

\* reduceByKey merges two values of one key, in whatever order and grouping
\* the partitioning and the shuffle bring them together.
Combine(a, b) ==
    /\ pc = "cell14"
    /\ BagIn(a, shuffle) /\ BagIn(b, shuffle)
    /\ a[1] = b[1]
    /\ a = b => CopiesIn(a, shuffle) >= 2
    /\ shuffle' = ((shuffle (-) SetToBag({a})) (-) SetToBag({b}))
                    (+) SetToBag({<<a[1], ReduceFn(a[2], b[2])>>})
    /\ UNCHANGED <<n, v_in, lines, mapped, v_out_spark_raw, v_out_spark,
                   defined, pc, err>>

\* sortByKey().collect() once every record is mapped and every key reduced.
SortCollect ==
    /\ pc = "cell14"
    /\ mapped = 1..Len(lines)
    /\ \A p \in BagToSet(shuffle) : CopiesIn(p, shuffle) = 1
    /\ \A p, q \in BagToSet(shuffle) : p[1] = q[1] => p = q
    /\ v_out_spark_raw' = SortByKey(shuffle)
    /\ defined' = defined \cup {"v_out_spark_raw"}
    /\ pc' = "cell16"
    /\ UNCHANGED <<n, v_in, lines, mapped, shuffle, v_out_spark, err>>

\* Cell 16: np.zeros(n) is bound first, then the scatter runs or raises.
Scatter ==
    /\ pc = "cell16"
    /\ \E r \in Reassemble(n, v_out_spark_raw) :
          /\ v_out_spark' = r.vec
          /\ pc' = IF r.ok THEN "done" ELSE "failed"
          /\ err' = IF r.ok THEN err ELSE "IndexError"
    /\ defined' = defined \cup {"v_out_spark"}
    /\ UNCHANGED <<n, v_in, lines, mapped, shuffle, v_out_spark_raw>>

Next ==
    \/ \E i \in 1..Len(lines) : MapRecord(i)
    \/ \E a, b \in BagToSet(shuffle) : Combine(a, b)
    \/ SortCollect
    \/ Scatter

Spec == Init /\ [][Next]_vars

SpecEntries == InitEntries /\ [][Next]_vars

----------------------------------------------------------------------------
(* The dense reference of cells 7, 8 and 17                                *)

WellFormed(l) == Len(l) = 3 /\ \A p \in 1..3 : l[p].num
RowOf(l) == l[1].val
ColOf(l) == l[2].val
ValOf(l) == l[3].val

\* Every line is an entry whose row and column lie in 0..n-1.
InRangeInput ==
    \A p \in 1..Len(lines) :
        /\ WellFormed(lines[p])
        /\ RowOf(lines[p]) \in 0..(n - 1)
        /\ ColOf(lines[p]) \in 0..(n - 1)

RECURSIVE CellSum(_, _, _)
\* coo_matrix(...).toarray() adds up the values of the first p entries at (i, j).
CellSum(i, j, p) ==
    IF p = 0 THEN 0
    ELSE CellSum(i, j, p - 1)
         + (IF RowOf(lines[p]) = i /\ ColOf(lines[p]) = j THEN ValOf(lines[p]) ELSE 0)

\* M = M_sparse.toarray()
M(i, j) == CellSum(i, j, Len(lines))

RECURSIVE DotRow(_, _)
\* Row i of M.dot(v_in), over the columns 0..j.
DotRow(i, j) ==
    IF j < 0 THEN 0 ELSE DotRow(i, j - 1) + M(i, j) * v_in[j + 1]

\* v_out_numpy = M.dot(v_in)
v_out_numpy == [i \in 1..n |-> DotRow(i - 1, n - 1)]

----------------------------------------------------------------------------
(* Properties                                                              *)

Ended == pc \in {"done", "failed"}

\* The rows that occur in the file.
RowsOfFile == {RowOf(lines[p]) : p \in 1..Len(lines)}

\* C1: for every entry list with rows and columns in 0..n-1 and every v_in,
\* the pipeline ends with a result vector, and that vector is the dense
\* product M.dot(v_in).
C1_EqualsDense ==
    (Ended /\ InRangeInput) => (pc = "done" /\ v_out_spark = v_out_numpy)

\* The bag of the file's lines: what a permutation of the file leaves unchanged.
LinesBag ==
    [l \in {lines[p] : p \in 1..Len(lines)} |->
        Cardinality({p \in 1..Len(lines) : lines[p] = l})]

RECURSIVE BagRowTotal(_, _)
\* The sum of value * v_in[col] over the lines of set S in row k, each counted
\* as often as the file holds it.
BagRowTotal(S, k) ==
    IF S = {} THEN 0
    ELSE LET l == CHOOSE e \in S : TRUE
         IN  (IF RowOf(l) = k
              THEN CopiesIn(l, LinesBag) * ValOf(l) * v_in[ColOf(l) + 1]
              ELSE 0)
             + BagRowTotal(S \ {l}, k)

\* C2: the collected sums and the result vector are a function of the bag of
\* entries, of v_in and of n alone: whatever the order of the lines and the
\* order and grouping of the pairwise additions, row k ends with the same sum.
C2_ScheduleIndependent ==
    /\ "v_out_spark_raw" \in defined =>
          \A p \in 1..Len(v_out_spark_raw) :
              v_out_spark_raw[p][2] = BagRowTotal(BagToSet(LinesBag), v_out_spark_raw[p][1])
    /\ pc = "done" =>
          \A i \in 0..(n - 1) : v_out_spark[i + 1] = BagRowTotal(BagToSet(LinesBag), i)

\* Three entries of one row, not all alike, were added up in some order.
C2_Witness ==
    /\ pc = "done"
    /\ Len(lines) = 3
    /\ \A p \in 1..3 : RowOf(lines[p]) = RowOf(lines[1])
    /\ lines[1] # lines[2]
    /\ lines[2] # lines[3]

\* C3: once the result vector is bound it has a position for every row of
\* 0..n-1, and every row that occurs in no entry holds exactly 0 there.
C3_AbsentRowIsZero ==
    "v_out_spark" \in defined =>
        \A i \in 0..(n - 1) :
            i \notin RowsOfFile => (Len(v_out_spark) = n /\ v_out_spark[i + 1] = 0)

\* A run that succeeded with a row that has entries and a row that has none.
C3_Witness ==
    /\ pc = "done"
    /\ n = 2
    /\ RowsOfFile = {1}
    /\ v_out_spark[1] = 0
    /\ v_out_spark[2] # 0

\* C4: the result vector of a run that succeeded has length n, however many
\* distinct rows the entries have.
C4_LengthIsN == pc = "done" => Len(v_out_spark) = n

\* A run that succeeded with fewer distinct rows than n.
C4_Witness ==
    /\ pc = "done"
    /\ n = 2
    /\ Len(v_out_spark_raw) = 1
    /\ Len(lines) = 2

RECURSIVE OtherCols(_, _, _)
\* The sum of value * v_in[col] over the first p entries in row i and not in
\* column j.
OtherCols(i, j, p) ==
    IF p = 0 THEN 0
    ELSE OtherCols(i, j, p - 1)
         + (IF RowOf(lines[p]) = i /\ ColOf(lines[p]) # j
            THEN ValOf(lines[p]) * v_in[ColOf(lines[p]) + 1]
            ELSE 0)

\* C5: the entries at one cell (i, j) give row i the sum of all their values
\* times v_in[j], on top of what the other entries of the row give.
C5_DuplicatesSummed ==
    pc = "done" =>
        \A i \in 0..(n - 1) : \A j \in 0..(n - 1) :
            v_out_spark[i + 1] =
                M(i, j) * v_in[j + 1] + OtherCols(i, j, Len(lines))

\* Two entries at the same cell with different values, and a third entry in
\* the same row.
C5_Witness ==
    /\ pc = "done"
    /\ Len(lines) = 3
    /\ RowOf(lines[1]) = RowOf(lines[2]) /\ ColOf(lines[1]) = ColOf(lines[2])
    /\ ValOf(lines[1]) # ValOf(lines[2])
    /\ RowOf(lines[3]) = RowOf(lines[1]) /\ ColOf(lines[3]) # ColOf(lines[1])

\* C6: a run whose file holds an entry with a column outside 0..n-1 collects
\* nothing and returns no result vector.
C6_ColumnOutOfRangeFails ==
    (\E p \in 1..Len(lines) :
        WellFormed(lines[p]) /\ ColOf(lines[p]) \notin 0..(n - 1))
    => pc \notin {"cell16", "done"}

\* C7: a run whose file holds an entry with a row outside 0..n-1 never ends
\* with a result vector.
C7_RowOutOfRangeFails ==
    (\E p \in 1..Len(lines) :
        WellFormed(lines[p]) /\ RowOf(lines[p]) \notin 0..(n - 1))
    => pc # "done"

\* C8: only lines of exactly three numeric fields get through the parse and
\* contribute to the map phase.
C8_MalformedLineRejected ==
    \A p \in mapped : WellFormed(lines[p])

\* A line on which the parse lambda or the map lambda raises.
Raises(l) ==
    \/ \E p \in 1..Len(l) : ~l[p].num
    \/ Len(l) < 3
    \/ l[2].val < 0 - n
    \/ l[2].val >= n

C9_NoResultAfterFailure ==
    /\ (\E p \in 1..Len(lines) : Raises(lines[p])) =>
          /\ pc \in {"cell14", "failed"}
          /\ defined = {}
          /\ v_out_spark_raw = <<>>
          /\ v_out_spark = <<>>
    /\ pc = "failed" => err \in {"ValueError", "IndexError"}

\* C9: a run with a record on which a lambda raises never collects and binds
\* no result, a failed run carries its exception, and nothing runs after the
\* failure (no retry, no continuation).
C9_FailureAborts == [](C9_NoResultAfterFailure) /\ [][pc # "failed"]_vars

\* A record raised after another had been mapped: nothing was kept.
C9_Witness ==
    /\ pc = "failed"
    /\ mapped # {}
    /\ defined = {}

\* C10: the collected list holds one pair per distinct row of the file, keys
\* strictly ascending; it is shorter than n whenever a row of 0..n-1 has no
\* entry, and no two pairs are scattered to the same position.
C10_OnePairPerRow ==
    "v_out_spark_raw" \in defined =>
        /\ {v_out_spark_raw[p][1] : p \in 1..Len(v_out_spark_raw)} = RowsOfFile
        /\ \A p \in 1..(Len(v_out_spark_raw) - 1) :
               v_out_spark_raw[p][1] < v_out_spark_raw[p + 1][1]
        /\ Len(v_out_spark_raw) = Cardinality(RowsOfFile)
        /\ (\E i \in 0..(n - 1) : i \notin RowsOfFile) => Len(v_out_spark_raw) < n
        /\ pc = "done" =>
               \A p, q \in 1..Len(v_out_spark_raw) :
                   p # q => Position(n, v_out_spark_raw[p][1]) # Position(n, v_out_spark_raw[q][1])

\* Entries of one row only, the other row absent: one pair for three entries.
C10_Witness ==
    /\ pc = "done"
    /\ n = 2
    /\ Cardinality(RowsOfFile) = 1
    /\ Len(v_out_spark_raw) = 1
    /\ Len(lines) >= 2

====
